---- MODULE Spec2Model ----
(***************************************************************************)
(* Safety layers for agent behaviour (src/src/lib.rs).                     *)
(*                                                                         *)
(* An AgentZ owns the model and four function pointers (decider, actor,    *)
(* mutater, undoer).  An AgentN is the Peano structure Z(AgentZ) or        *)
(* S(AgentS) with AgentS = {core: AgentN}.  Every method of the crate is   *)
(* an operator on these values; a `&mut self` method returns the new self. *)
(* One action of the state machine is one call of a public method on the   *)
(* agent `s`.                                                              *)
(***************************************************************************)
EXTENDS Integers, Sequences, FiniteSets, TLC

VARIABLES
    s,       \* the agent stack (an AgentN), as `let mut s` of the test
    op,      \* name of the last method called on s
    ret,     \* what that call returned
    pre,     \* the agent as it was when the last decide() was called
    prior,   \* the decision before the last one and the calls made in between
    log      \* what the last decide() did: frames of AgentS::decide, base calls

vars == <<s, op, ret, pre, prior, log>>

-----------------------------------------------------------------------------
(* Bounds of the model. *)

\* most safety layers an agent is given
MaxLayers == 3
\* table-driven base agents have the models 0..MaxModel
MaxModel == 1
\* the reference agent's target is kept in 0..MaxTarget
MaxTarget == 5
\* the reference agent's current is kept in 0..MaxCurrent, or within MaxWrap
\* below 2^32 once it has wrapped around
MaxCurrent == 5
MaxWrap == 1

(* Program constants. *)

\* pub const MUTATION_LIMIT: u8 = 4;
MUTATION_LIMIT == 4
-----------------------------------------------------------------------------
(* Decision<A> *)

Action(a) == [tag |-> "Action", value |-> a]
RequestModel == [tag |-> "RequestModel"]

(* Values returned by the other methods. *)
Unit == [tag |-> "Unit"]
Delta(d) == [tag |-> "Delta", value |-> d]

-----------------------------------------------------------------------------
(* The closures of tests::it_works, model = (target, current): (u32, u32). *)
(* A u32 is held as the i32 with the same 32 bits, so the casts `as i32`   *)
(* and `as u32` keep the value held and the u32 4294967295 is held as -1;  *)
(* the u32 comparisons read the bits as unsigned.                          *)

\* a < b of two u32
ULt(a, b) == IF (a < 0) = (b < 0) THEN a < b ELSE b < 0

\* the decider that still steps forward when current has reached the target
decider_oversteps(model) ==
    IF ~ULt(model[1], model[2]) THEN 1 ELSE -1

\* decider: |model| if model.1 < model.0 {1} else if model.1 > model.0 {-1} else {0}
decider(model) ==
    IF ULt(model[2], model[1]) THEN 1
    ELSE IF ULt(model[1], model[2]) THEN -1
    ELSE 0

\* the actor that drops the action
actor_keeps(model, action) == model

\* actor: model.1 = (model.1 as i32 + action) as u32
actor(model, action) == <<model[1], model[2] + action>>

\* the mutater that reports a decrement it never made
mutater_keeps_target(model) ==
    IF ULt(0, model[1])
    THEN [model |-> model, delta |-> -1]
    ELSE [model |-> model, delta |-> 0]

\* mutater: if model.0 > 0 {model.0 -= 1; -1} else {0}
mutater(model) ==
    IF ULt(0, model[1])
    THEN [model |-> <<model[1] - 1, model[2]>>, delta |-> -1]
    ELSE [model |-> model, delta |-> 0]

\* the undoer with the sign of the delta wrong
undoer_adds(model, delta) == <<model[1] + delta, model[2]>>

\* undoer: model.0 = (model.0 as i32 - delta) as u32
undoer(model, delta) == <<model[1] - delta, model[2]>>

-----------------------------------------------------------------------------
(* Function pointers.  A field of AgentZ holds either one of the closures  *)
(* above or a table: any function of the model, drawn at construction.     *)

Closure == [fn |-> "closure"]
Table(f) == [fn |-> "table", tab |-> f]

call_decider(f, model) ==
    IF f.fn = "table" THEN f.tab[model] ELSE decider(model)

call_actor(f, model, action) ==
    IF f.fn = "table" THEN f.tab[<<model, action>>] ELSE actor(model, action)

\* a table mutater hands out the model it replaced as the delta
call_mutater(f, model) ==
    IF f.fn = "table" THEN [model |-> f.tab[model], delta |-> model]
    ELSE mutater(model)

\* a table undoer puts the delta back (tab is the identity on deltas)
call_undoer(f, model, delta) ==
    IF f.fn = "table" THEN f.tab[delta] ELSE undoer(model, delta)

-----------------------------------------------------------------------------
(* struct AgentZ and impl Agent for AgentZ *)

AgentZ(model, d, a, m, u) ==
    [model |-> model, decider |-> d, actor |-> a, mutater |-> m, undoer |-> u]

\* what a call hands back: the new self, the returned value, the call context
Out(self, value, cx) == [self |-> self, ret |-> value, cx |-> cx]

\* the call context records every use of a function pointer of the base agent
NoCalls == [events |-> <<>>, frames |-> <<>>]
Event(cx, e) == [cx EXCEPT !.events = Append(@, e)]

AgentZ_update_model(self, model, cx) ==
    Out([self EXCEPT !.model = model], Unit, cx)

\* AgentZ::decide that asks for a model instead of deciding
AgentZ_decide_requests(self, cx) ==
    Out(self, RequestModel, Event(cx, <<"decider", self.model>>))

AgentZ_decide(self, cx) ==
    Out(self, Action(call_decider(self.decider, self.model)),
        Event(cx, <<"decider", self.model>>))

AgentZ_act(self, action, cx) ==
    Out([self EXCEPT !.model = call_actor(self.actor, self.model, action)],
        Unit, Event(cx, <<"actor", action>>))

AgentZ_mutate(self, cx) ==
    LET r == call_mutater(self.mutater, self.model)
    IN  Out([self EXCEPT !.model = r.model], r.delta,
            Event(cx, <<"mutater", r.delta>>))

\* AgentZ::undo that never calls the undoer
AgentZ_undo_skipped(self, delta, cx) == Out(self, Unit, cx)

AgentZ_undo(self, delta, cx) ==
    Out([self EXCEPT !.model = call_undoer(self.undoer, self.model, delta)],
        Unit, Event(cx, <<"undoer", delta>>))

-----------------------------------------------------------------------------
(* enum AgentN { Z(AgentZ), S(Box<AgentS>) }, struct AgentS { core } *)

Z(agent) == [tag |-> "Z", agent |-> agent]
S(agent) == [tag |-> "S", agent |-> agent]
AgentS(core) == [core |-> core]

\* AgentZ::add
RECURSIVE add(_, _)
add(self, n) ==
    IF n = 0 THEN Z(self)
    ELSE S(AgentS(add(self, n - 1)))

\* AgentN::z: the core zero agent
RECURSIVE z(_)
z(self) ==
    IF self.tag = "Z" THEN self.agent
    ELSE z(self.agent.core)

\* a write through the `&mut AgentZ` that z() returns
RECURSIVE z_store(_, _)
z_store(self, agent) ==
    IF self.tag = "Z" THEN Z(agent)
    ELSE S(AgentS(z_store(self.agent.core, agent)))

\* dec that strips every shell at once
dec_to_zero(self) == Z(z(self))

\* AgentN::dec
dec(self) ==
    IF self.tag = "Z" THEN self
    ELSE self.agent.core

\* inc that wraps the agent in two shells
inc_twice(self) == S(AgentS(S(AgentS(self))))

\* AgentN::inc
inc(self) == S(AgentS(self))

\* number of successor shells around the core zero
RECURSIVE layers(_)
layers(self) ==
    IF self.tag = "Z" THEN 0
    ELSE 1 + layers(self.agent.core)

-----------------------------------------------------------------------------
(* impl Agent for AgentN and impl Agent for AgentS *)

\* the match arms of AgentN hand the call to the variant and rewrap the result
InZ(r) == Out(Z(r.self), r.ret, r.cx)
InS(r) == Out(S(r.self), r.ret, r.cx)

\* AgentS::update_model that updates a copy of the core zero
AgentS_update_model_dropped(self, model, cx) ==
    LET r == AgentZ_update_model(z(self.core), model, cx)
    IN  Out(self, r.ret, r.cx)

\* AgentS::update_model: self.core.z().update_model(model)
AgentS_update_model(self, model, cx) ==
    LET r == AgentZ_update_model(z(self.core), model, cx)
    IN  Out(AgentS(z_store(self.core, r.self)), r.ret, r.cx)

AgentN_update_model(self, model, cx) ==
    IF self.tag = "Z" THEN InZ(AgentZ_update_model(self.agent, model, cx))
    ELSE InS(AgentS_update_model(self.agent, model, cx))

\* AgentS::act that acts only on the action the core zero decides
AgentS_act_checked(self, action, cx) ==
    LET r == AgentZ_act(z(self.core), action, cx)
    IN  IF AgentZ_decide(z(self.core), cx).ret = Action(action)
        THEN Out(AgentS(z_store(self.core, r.self)), r.ret, r.cx)
        ELSE Out(self, Unit, cx)

\* AgentS::act: self.core.z().act(action)
AgentS_act(self, action, cx) ==
    LET r == AgentZ_act(z(self.core), action, cx)
    IN  Out(AgentS(z_store(self.core, r.self)), r.ret, r.cx)

AgentN_act(self, action, cx) ==
    IF self.tag = "Z" THEN InZ(AgentZ_act(self.agent, action, cx))
    ELSE InS(AgentS_act(self.agent, action, cx))

RECURSIVE AgentN_mutate(_, _)

\* AgentS::mutate with every shell applying the mutater once more
AgentS_mutate_per_shell(self, cx) ==
    LET r == AgentN_mutate(self.core, cx)
        again == AgentZ_mutate(z(r.self), r.cx)
    IN  Out(AgentS(z_store(r.self, again.self)), again.ret, again.cx)

\* AgentN::mutate, and AgentS::mutate: self.core.mutate()
AgentS_mutate(self, cx) ==
    LET r == AgentN_mutate(self.core, cx)
    IN  Out(AgentS(r.self), r.ret, r.cx)

AgentN_mutate(self, cx) ==
    IF self.tag = "Z" THEN InZ(AgentZ_mutate(self.agent, cx))
    ELSE InS(AgentS_mutate(self.agent, cx))

\* AgentS::undo with the undone agent never written back to the core
AgentS_undo_dropped(self, delta, cx) ==
    LET r == AgentZ_undo(z(self.core), delta, cx)
    IN  Out(self, r.ret, r.cx)

\* AgentS::undo: self.core.z().undo(delta)
AgentS_undo(self, delta, cx) ==
    LET r == AgentZ_undo(z(self.core), delta, cx)
    IN  Out(AgentS(z_store(self.core, r.self)), r.ret, r.cx)

AgentN_undo(self, delta, cx) ==
    IF self.tag = "Z" THEN InZ(AgentZ_undo(self.agent, delta, cx))
    ELSE InS(AgentS_undo(self.agent, delta, cx))

\* one finished call of AgentS::decide: the layer that ran it, the decision of
\* the core zero, the probed decisions in order, the decision returned and the
\* return statement that produced it
Frame(cx, self, base, probes, value, why) ==
    [cx EXCEPT !.frames = Append(@,
        [layer |-> 1 + layers(self.core), base |-> base, probes |-> probes,
         ret |-> value, why |-> why])]

\* a return statement of AgentS::decide
Return(self, base, probes, value, why, cx) ==
    Out(self, value, Frame(cx, self, base, probes, value, why))

\* compare with the disagreeing branch committing to the probed action
compare_commits_probed(a, b) == Action(b)

\* `if a == b {return Decision::Action(a)} else {return Decision::RequestModel}`
compare(a, b) == IF a = b THEN Action(a) ELSE RequestModel

\* give_up falling back to the action of the core zero
give_up_commits(a) == Action(a)

\* the value of the block after the loop: Decision::RequestModel
give_up(a) == RequestModel

\* the value of the arm `Decision::RequestModel => Decision::RequestModel`
core_zero_requests == RequestModel

RECURSIVE AgentN_decide(_, _)
RECURSIVE probe(_, _, _, _, _)

\* the body of `for _ in 0..MUTATION_LIMIT`, from iteration i on, and the
\* block after the loop; a is the action the core zero decided
probe(self, a, i, probes, cx) ==
    IF i = MUTATION_LIMIT
    THEN Return(self, Action(a), probes, give_up(a), "exhausted", cx)
    ELSE LET m == AgentN_mutate(self.core, cx)
             d == AgentN_decide(m.self, m.cx)
             u == AgentN_undo(d.self, m.ret, d.cx)
             b == d.ret
             self1 == AgentS(u.self)
             seen == Append(probes, b)
         IN  IF b = RequestModel THEN probe(self1, a, i + 1, seen, u.cx)
             ELSE Return(self1, Action(a), seen, compare(a, b.value),
                         IF a = b.value THEN "agree" ELSE "disagree", u.cx)

\* AgentS::decide that returns what the core zero decided, without a probe
AgentS_decide_unprobed(self, cx) ==
    LET r == AgentZ_decide(z(self.core), cx)
        self0 == AgentS(z_store(self.core, r.self))
    IN  Return(self0, r.ret, <<>>, r.ret, "core_zero", r.cx)

\* AgentS::decide
AgentS_decide(self, cx) ==
    LET r == AgentZ_decide(z(self.core), cx)
        self0 == AgentS(z_store(self.core, r.self))
    IN  IF r.ret = RequestModel
        THEN Return(self0, r.ret, <<>>, core_zero_requests, "core_zero", r.cx)
        ELSE probe(self0, r.ret.value, 0, <<>>, r.cx)

AgentN_decide(self, cx) ==
    IF self.tag = "Z" THEN InZ(AgentZ_decide(self.agent, cx))
    ELSE InS(AgentS_decide(self.agent, cx))

-----------------------------------------------------------------------------
(* The base agents a caller may construct, and the arguments it may pass. *)

\* the agent of tests::it_works
RefAgent == AgentZ(<<4, 0>>, Closure, Closure, Closure, Closure)

Models == 0 .. MaxModel
TableActions == {0, 1}

\* every decider and every mutater over Models, the undoer that inverts the
\* mutater exactly, and an actor that advances the model by the action
TableAgents ==
    { AgentZ(m, Table(d),
             Table([x \in Models \X TableActions |-> (x[1] + x[2]) % (MaxModel + 1)]),
             Table(mu), Table([x \in Models |-> x])) :
        m \in Models, d \in [Models -> TableActions], mu \in [Models -> Models] }

IsRef(self) == z(self).decider.fn = "closure"

ModelsOf(self) ==
    IF IsRef(self) THEN (0 .. MaxTarget) \X (0 .. MaxCurrent) ELSE Models

ActionsOf(self) == IF IsRef(self) THEN {-1, 0, 1} ELSE TableActions

DeltasOf(self) == IF IsRef(self) THEN {-1, 0} ELSE Models

\* the models the bounds keep
InBounds(self) ==
    IsRef(self) =>
        /\ z(self).model[1] \in 0 .. MaxTarget
        /\ z(self).model[2] \in (0 - MaxWrap) .. MaxCurrent

-----------------------------------------------------------------------------
(* What the caller remembers between calls. *)

NoPrior == [dec |-> Unit, via |-> <<"other">>]

\* after a call `o` that is not decide(): the last decision, if `o` continues
\* one of the call sequences decide; {dec | inc | mutate; undo(returned delta)}
Track(o, arg) ==
    IF op = "decide"
    THEN IF o \in {"dec", "inc", "mutate"}
         THEN [dec |-> ret, via |-> <<o>>]
         ELSE NoPrior
    ELSE IF /\ o = "undo"
            /\ op = "mutate"
            /\ prior.via = <<"mutate">>
            /\ ret = Delta(arg)
         THEN [dec |-> prior.dec, via |-> <<"mutate", "undo">>]
         ELSE NoPrior

-----------------------------------------------------------------------------
(* The state machine: one action per public method called on s. *)

Init ==
    /\ \E n \in 0 .. MaxLayers :
          \/ s = add(RefAgent, n)
          \/ \E a \in TableAgents : s = add(a, n)
    /\ op = "add"
    /\ ret = Unit
    /\ pre = Unit
    /\ prior = NoPrior
    /\ log = NoCalls

UpdateModel(model) ==
    LET r == AgentN_update_model(s, model, NoCalls)
    IN  /\ s' = r.self
        /\ op' = "update_model"
        /\ ret' = r.ret
        /\ pre' = Unit
        /\ prior' = Track("update_model", Unit)
        /\ log' = r.cx

Decide ==
    LET r == AgentN_decide(s, NoCalls)
    IN  /\ s' = r.self
        /\ op' = "decide"
        /\ ret' = r.ret
        /\ pre' = s
        /\ prior' = IF op = "decide" THEN [dec |-> ret, via |-> <<>>] ELSE prior
        /\ log' = r.cx

Act(action) ==
    LET r == AgentN_act(s, action, NoCalls)
    IN  /\ InBounds(r.self)
        /\ s' = r.self
        /\ op' = "act"
        /\ ret' = r.ret
        /\ pre' = Unit
        /\ prior' = Track("act", action)
        /\ log' = r.cx

Mutate ==
    LET r == AgentN_mutate(s, NoCalls)
    IN  /\ s' = r.self
        /\ op' = "mutate"
        /\ ret' = Delta(r.ret)
        /\ pre' = Unit
        /\ prior' = Track("mutate", Unit)
        /\ log' = r.cx

Undo(delta) ==
    LET r == AgentN_undo(s, delta, NoCalls)
    IN  /\ InBounds(r.self)
        /\ s' = r.self
        /\ op' = "undo"
        /\ ret' = r.ret
        /\ pre' = Unit
        /\ prior' = Track("undo", delta)
        /\ log' = r.cx

Inc ==
    /\ layers(s) < MaxLayers
    /\ s' = inc(s)
    /\ op' = "inc"
    /\ ret' = Unit
    /\ pre' = Unit
    /\ prior' = Track("inc", Unit)
    /\ log' = NoCalls

Dec ==
    /\ s' = dec(s)
    /\ op' = "dec"
    /\ ret' = Unit
    /\ pre' = Unit
    /\ prior' = Track("dec", Unit)
    /\ log' = NoCalls

Next ==
    \/ \E model \in ModelsOf(s) : UpdateModel(model)
    \/ Decide
    \/ \E action \in ActionsOf(s) : Act(action)
    \/ Mutate
    \/ \E delta \in DeltasOf(s) : Undo(delta)
    \/ Inc
    \/ Dec

Spec == Init /\ [][Next]_vars

-----------------------------------------------------------------------------
(* The caller of tests::it_works at safety level zero: decide, then act on *)
(* the decided action, over and over.  The test runs every statement to    *)
(* its end, so a step that can be taken is taken.                          *)

LoopInit ==
    /\ s \in { Z([RefAgent EXCEPT !.model = m]) : m \in ModelsOf(Z(RefAgent)) }
    /\ op = "add"
    /\ ret = Unit
    /\ pre = Unit
    /\ prior = NoPrior
    /\ log = NoCalls

\* assert_eq!(s.decide(), ..)
LoopDecide == op # "decide" /\ Decide

\* if let Decision::Action(a) = s.decide() { s.act(a); }
LoopAct == op = "decide" /\ ret.tag = "Action" /\ Act(ret.value)

LoopNext == LoopDecide \/ LoopAct

SpecLoop == LoopInit /\ [][LoopNext]_vars /\ WF_vars(LoopNext)

-----------------------------------------------------------------------------
(* Properties. *)

Frames == { log.frames[i] : i \in 1 .. Len(log.frames) }

\* the last call was decide() and followed an earlier decide() by the calls `via`
DecidedAfter(via) == op = "decide" /\ prior.via = via

\* C1: safety monotonicity.  When decide() returns Action(a) and the agent is
\* then reduced by dec(), decide() on the same model returns Action(a) or
\* RequestModel, never another action.
C1_SafetyMonotone ==
    (DecidedAfter(<<"dec">>) /\ prior.dec.tag = "Action")
        => ret \in {prior.dec, RequestModel}

\* a two-layer (or deeper) agent committed to an action, lost a layer, and the
\* remaining layered agent committed to the same action
C1_Witness ==
    /\ DecidedAfter(<<"dec">>)
    /\ prior.dec.tag = "Action"
    /\ layers(s) >= 1
    /\ ret = prior.dec
    /\ Len(log.frames) >= 1

\* C2: layers only add caution.  When the k-layer agent returns RequestModel,
\* the agent with one more layer on the same model returns RequestModel too;
\* and when the agent with one more layer commits to an action, its core
\* commits to that action.
C2_LayersAddCaution ==
    /\ (DecidedAfter(<<"inc">>) /\ prior.dec = RequestModel) => ret = RequestModel
    /\ (DecidedAfter(<<"dec">>) /\ prior.dec.tag = "Action") => ret = prior.dec

\* a layered agent asked for a model, got one more layer and asked again
C2_Witness ==
    /\ DecidedAfter(<<"inc">>)
    /\ prior.dec = RequestModel
    /\ ret = RequestModel
    /\ layers(s) >= 2

\* C3: exhaustion escalates.  A call of AgentS::decide whose core zero decided
\* an action and whose MUTATION_LIMIT probes all came back RequestModel returns
\* RequestModel.
C3_ExhaustionEscalates ==
    \A f \in Frames :
        ( /\ f.base.tag = "Action"
          /\ Len(f.probes) = MUTATION_LIMIT
          /\ \A i \in 1 .. Len(f.probes) : f.probes[i] = RequestModel )
        => f.ret = RequestModel

\* the outermost layer ran all its probes and every one was inconclusive
C3_Witness ==
    /\ op = "decide"
    /\ \E f \in Frames :
        /\ f.layer = layers(s)
        /\ f.base.tag = "Action"
        /\ Len(f.probes) = MUTATION_LIMIT
        /\ \A i \in 1 .. Len(f.probes) : f.probes[i] = RequestModel
    /\ ret = RequestModel

\* C4: decide() leaves the agent as it found it: the model of the core zero and
\* the layer structure are the ones the call started with.
C4_DecideRestoresModel ==
    op = "decide" =>
        /\ z(s).model = z(pre).model
        /\ layers(s) = layers(pre)
        /\ s = pre

\* a decide() of a layered agent that mutated a model which the mutater really
\* changes, and ended by exhaustion
C4_Witness ==
    /\ op = "decide"
    /\ layers(s) >= 2
    /\ \E i \in 1 .. Len(log.events) :
        /\ log.events[i][1] = "decider"
        /\ log.events[i][2] # z(pre).model
    /\ \E f \in Frames : f.why = "exhausted"
    /\ s = pre

\* C5: two decide() calls in a row return the same decision.
C5_DecideIdempotent ==
    DecidedAfter(<<>>) => ret = prior.dec

\* a layered agent asked for a model twice in a row
C5_Witness ==
    /\ DecidedAfter(<<>>)
    /\ layers(s) >= 1
    /\ ret = RequestModel
    /\ prior.dec = RequestModel

\* C6: mutate() followed at once by undo() of the returned delta leaves an
\* agent whose decide() returns what it returned before the pair.
C6_MutateUndoRoundTrip ==
    DecidedAfter(<<"mutate", "undo">>) => ret = prior.dec

\* the reference agent with a layer: its target was decremented by mutate(),
\* put back by undo(-1), and the decision is again the action
C6_Witness ==
    /\ DecidedAfter(<<"mutate", "undo">>)
    /\ IsRef(s)
    /\ layers(s) >= 1
    /\ z(s).model[1] > 0
    /\ ret.tag = "Action"
    /\ ret = prior.dec

\* C10: a base agent never requests a model.  The zero-layer agent returns the
\* action of its decider, no call of AgentS::decide gets RequestModel from the
\* core zero, and every RequestModel comes from a disagreeing probe or from
\* exhaustion.
C10_BaseNeverRequests ==
    op = "decide" =>
        /\ layers(s) = 0 => ret = Action(call_decider(z(pre).decider, z(pre).model))
        /\ \A f \in Frames :
            /\ f.base.tag = "Action"
            /\ f.why # "core_zero"
            /\ f.ret = RequestModel => f.why \in {"disagree", "exhausted"}
        /\ ret = RequestModel =>
            \E f \in Frames : f.layer = layers(s) /\ f.why \in {"disagree", "exhausted"}

\* a layered agent returned RequestModel, once from a disagreeing probe inside
\* and once from exhaustion
C10_Witness ==
    /\ op = "decide"
    /\ ret = RequestModel
    /\ \E f \in Frames : f.why = "disagree"
    /\ \E f \in Frames : f.why = "exhausted"

\* target and current of the reference model
Target == z(s).model[1]
Current == z(s).model[2]

\* C7: the reference agent with k layers, k <= target and current < target,
\* decides Action(1) exactly when current < target - k and RequestModel
\* otherwise; with target 4 one layer acts at current 1 and 2 and asks at 3,
\* two layers act at current 1 and ask at 2; and a dec() after the first
\* RequestModel lets the agent act on the same model.
C7_ReferenceLayers ==
    (op = "decide" /\ IsRef(s)) =>
        /\ (0 <= Current /\ Current < Target /\ layers(s) <= Target) =>
              ret = IF Current < Target - layers(s) THEN Action(1) ELSE RequestModel
        /\ (Target = 4 /\ layers(s) = 1 /\ Current \in {1, 2}) => ret = Action(1)
        /\ (Target = 4 /\ layers(s) = 1 /\ Current = 3) => ret = RequestModel
        /\ (Target = 4 /\ layers(s) = 2 /\ Current = 1) => ret = Action(1)
        /\ (Target = 4 /\ layers(s) = 2 /\ Current = 2) => ret = RequestModel
        /\ ( /\ prior.via = <<"dec">>
             /\ prior.dec = RequestModel
             /\ 0 <= Current
             /\ Target = Current + layers(s) + 1 ) => ret = Action(1)

\* two layers asked for a model at (4, 2); after dec() the one layer acts
C7_Witness ==
    /\ DecidedAfter(<<"dec">>)
    /\ IsRef(s)
    /\ z(s).model = <<4, 2>>
    /\ layers(s) = 1
    /\ prior.dec = RequestModel
    /\ ret = Action(1)

\* C8 as the specification states it: with one layer and target 4 the
\* decide() taken at current 2 returns RequestModel.
C8_AsStated ==
    (op = "decide" /\ IsRef(s) /\ layers(s) = 1 /\ z(s).model = <<4, 2>>)
        => ret = RequestModel

\* C8, amended: with one layer and target 4 the agent acts at current 0, 1 and
\* 2, and the decide() taken at current 3 returns RequestModel, because the
\* probe with the target mutated from 4 to 3 decides 0 where the core zero
\* decided +1.
C8_OneLayerAsksAtThree ==
    (op = "decide" /\ IsRef(s) /\ layers(s) = 1 /\ Target = 4) =>
        /\ Current \in {0, 1, 2} => ret = Action(1)
        /\ Current = 3 =>
            /\ ret = RequestModel
            /\ log.frames = << [layer |-> 1, base |-> Action(1),
                                probes |-> <<Action(0)>>, ret |-> RequestModel,
                                why |-> "disagree"] >>
            /\ log.events = << <<"decider", <<4, 3>> >>, <<"mutater", -1>>,
                               <<"decider", <<3, 3>> >>, <<"undoer", -1>> >>

\* the one-layer agent asked for a model at (4, 3), where act had taken it
C8_Witness ==
    /\ op = "decide"
    /\ IsRef(s)
    /\ layers(s) = 1
    /\ z(s).model = <<4, 3>>
    /\ ret = RequestModel

\* C9: the zero-layer reference agent, driven by decide/act from a current
\* below its target (as from (4, 0)), reaches current = target; every decide()
\* before that returns Action(1); from then on decide() returns Action(0) and
\* act leaves the model as it is; it never returns RequestModel.
C9_ZeroLayersReachTarget ==
    /\ (layers(s) = 0 /\ 0 <= Current /\ Current <= Target) ~> (Current = Target)
    /\ []((layers(s) = 0 /\ op = "decide" /\ 0 <= Current /\ Current < Target)
            => ret = Action(1))
    /\ []((layers(s) = 0 /\ op = "decide" /\ Current = Target) => ret = Action(0))
    /\ [][(layers(s) = 0 /\ Current = Target) => z(s').model = z(s).model]_vars
    /\ []((layers(s) = 0 /\ op = "decide") => ret # RequestModel)

\* the zero-layer agent stands at (4, 4) and has decided Action(0)
C9_Witness ==
    /\ layers(s) = 0
    /\ z(s).model = <<4, 4>>
    /\ op = "decide"
    /\ ret = Action(0)

\* the model after the mutater has been applied i times in succession
RECURSIVE mutated(_, _, _)
mutated(agent, model, i) ==
    IF i = 0 THEN model
    ELSE mutated(agent, call_mutater(agent.mutater, model).model, i - 1)

\* Action(a) when the decider yields a on the model and on the n models
\* mutated(.., 1), .., mutated(.., n); RequestModel otherwise
ClosedDecision(agent, n) ==
    LET a == call_decider(agent.decider, agent.model)
    IN  IF \A i \in 1 .. n :
              call_decider(agent.decider, mutated(agent, agent.model, i)) = a
        THEN Action(a)
        ELSE RequestModel

\* C11: update_model(m) puts m in the one model of the core zero and leaves
\* the function pointers and the shells as they were; the decide() that
\* follows is the decision for m and the layer count alone.
C11_UpdateModelReplaces ==
    [][ /\ \A model \in ModelsOf(s) :
              UpdateModel(model) =>
                  s' = add([z(s) EXCEPT !.model = model], layers(s))
        /\ (op = "update_model" /\ Decide) =>
              ret' = ClosedDecision(z(s), layers(s)) ]_vars

\* a two-layer reference agent was handed the model (3, 1)
C11_Witness ==
    /\ op = "update_model"
    /\ IsRef(s)
    /\ layers(s) = 2
    /\ z(s).model = <<3, 1>>

\* C12: act(action) on an agent with any number of layers calls the actor of
\* the core zero once, on the one model, whatever the action and whatever the
\* agent would decide; the result is that of the zero-layer agent and the
\* shells stay as they were.
C12_ActAppliesActorOnce ==
    [][ \A action \in ActionsOf(s) :
            Act(action) =>
                /\ s' = add([z(s) EXCEPT !.model =
                                call_actor(z(s).actor, z(s).model, action)],
                            layers(s))
                /\ Z(z(s')) = AgentN_act(Z(z(s)), action, NoCalls).self
                /\ log'.events = << <<"actor", action>> >>
                /\ log'.frames = <<>> ]_vars

\* a two-layer reference agent at (4, 0) was made to step back, an action its
\* decider never yields there: current wrapped to 4294967295
C12_Witness ==
    /\ op = "act"
    /\ IsRef(s)
    /\ layers(s) = 2
    /\ z(s).model = <<4, -1>>
    /\ log.events = << <<"actor", -1>> >>

\* x is n successor shells, one inside the other, around Z(agent)
RECURSIVE Peano(_, _, _)
Peano(x, n, agent) ==
    IF n = 0 THEN x = Z(agent)
    ELSE /\ x.tag = "S"
         /\ DOMAIN x.agent = {"core"}
         /\ Peano(x.agent.core, n - 1, agent)

\* C13: Peano correspondence.  add(n) of a base agent is n shells around a
\* Zero holding that agent, model and all; inc() of add(n) is add(n + 1); and
\* every inc() adds one shell around the agent it was given, so the depth is
\* the number of layers added.
C13_PeanoCorrespondence ==
    /\ [](\A n \in 0 .. MaxLayers :
            /\ Peano(add(z(s), n), n, z(s))
            /\ layers(add(z(s), n)) = n
            /\ inc(add(z(s), n)) = add(z(s), n + 1))
    /\ [](op = "add" => Peano(s, layers(s), z(s)))
    /\ [][Inc => /\ Peano(s', layers(s) + 1, z(s))
                 /\ s'.agent.core = s
                 /\ s' = add(z(s), layers(s) + 1)]_vars

\* three shells stand around the core zero after an inc()
C13_Witness ==
    /\ op = "inc"
    /\ layers(s) = 3
    /\ Peano(s, 3, z(s))

\* dec() applied n times
RECURSIVE dec_times(_, _)
dec_times(x, n) ==
    IF n = 0 THEN x
    ELSE dec_times(dec(x), n - 1)

\* C14: dec() removes exactly the outermost shell and leaves the rest, the
\* model and the operations as they were: n times dec() on add(n) is the Zero
\* around the unmodified base agent, the decremented agent decides like a
\* fresh add(n - 1), dec() of a zero-layer agent is that agent, and
\* dec(inc(x)) = x.
C14_DecRemovesOneShell ==
    /\ [](/\ \A n \in 0 .. MaxLayers :
                /\ dec_times(add(z(s), n), n) = Z(z(s))
                /\ n > 0 => dec(add(z(s), n)) = add(z(s), n - 1)
          /\ dec(Z(z(s))) = Z(z(s))
          /\ dec(inc(s)) = s
          /\ layers(s) > 0 =>
                /\ dec(s) = s.agent.core
                /\ AgentN_decide(dec(s), NoCalls).ret
                       = AgentN_decide(add(z(s), layers(s) - 1), NoCalls).ret)
    /\ [][Dec => /\ z(s') = z(s)
                 /\ s' = IF layers(s) = 0 THEN s
                         ELSE add(z(s), layers(s) - 1)]_vars

\* a dec() has taken a three-layer agent to two layers
C14_Witness ==
    /\ op = "dec"
    /\ layers(s) = 2
    /\ IsRef(s)
    /\ z(s).model = <<4, 3>>

\* how often the last call ran the base decider
DeciderCalls ==
    Cardinality({i \in DOMAIN log.events : log.events[i][1] = "decider"})

\* C15: linear cost.  One decide() on an N-layer agent runs the base decider
\* at most once for the base decision and at most MUTATION_LIMIT times more
\* for each layer.
C15_AsStated ==
    op = "decide" => DeciderCalls <= 1 + MUTATION_LIMIT * layers(pre)

\* how many mutations are not yet undone after each of the base calls of the
\* last call (after none of them: 0)
Outstanding ==
    LET e == log.events
        ups == {j \in DOMAIN e : e[j][1] = "mutater"}
        downs == {j \in DOMAIN e : e[j][1] = "undoer"}
    IN  \* @@ makes TLC tabulate the function instead of recomputing each entry
        [k \in 0 .. Len(e) |->
            Cardinality(ups \cap (1 .. k)) - Cardinality(downs \cap (1 .. k))]
        @@ <<>>

\* the mutations the outermost layer made itself: those made with none outstanding
TopMutates ==
    LET d == Outstanding
    IN  {k \in DOMAIN log.events :
            /\ log.events[k][1] = "mutater"
            /\ d[k - 1] = 0}

\* C16: the first conclusive probe decides.  In every call of AgentS::decide
\* whose core zero decided Action(a), every probe before the last returned
\* RequestModel; a last probe Action(b) makes the call return Action(a) when
\* b = a and RequestModel when b # a, never Action(b); and the outermost layer
\* makes one mutation per probe on record and ends with the undo of the last.
C16_FirstConclusiveProbeDecides ==
    op = "decide" =>
        /\ \A f \in Frames :
              LET k == Len(f.probes)
              IN  /\ \A i \in 1 .. k - 1 : f.probes[i] = RequestModel
                  /\ f.why # "core_zero" =>
                        /\ f.base.tag = "Action"
                        /\ k > 0
                        /\ f.ret \in {f.base, RequestModel}
                        /\ f.probes[k].tag = "Action" =>
                              f.ret = IF f.probes[k] = f.base THEN f.base
                                      ELSE RequestModel
                        /\ f.probes[k] = RequestModel =>
                              k = MUTATION_LIMIT /\ f.ret = RequestModel
        /\ layers(pre) > 0 =>
              LET top == log.frames[Len(log.frames)]
                  n == Len(log.events)
                  d == Outstanding
              IN  /\ top.layer = layers(pre)
                  /\ top.ret = ret
                  /\ Cardinality(TopMutates) = Len(top.probes)
                  /\ log.events[n][1] = "undoer"
                  /\ d[n - 1] = 1
                  /\ d[n] = 0

\* a three-layer call ended on the first probe, which disagreed with the core
\* zero, and returned RequestModel
C16_Witness ==
    /\ op = "decide"
    /\ layers(pre) = 3
    /\ ret = RequestModel
    /\ LET top == log.frames[Len(log.frames)]
       IN  /\ top.why = "disagree"
           /\ Len(top.probes) = 1
           /\ top.probes[1].tag = "Action"
           /\ top.probes[1] # top.base

\* C17: probe nesting.  Within one decide() on an N-layer agent every undo
\* takes back the latest mutation not yet undone, the base decider runs with
\* no mutation outstanding only once (the base decision of the outermost
\* layer, before its first probe), never more than N mutations are outstanding,
\* and none is when the call returns.
C17_ProbesNest ==
    op = "decide" =>
        LET e == log.events
            d == Outstanding
        IN  /\ \A k \in DOMAIN e :
                  /\ e[k][1] = "undoer" =>
                        /\ d[k - 1] > 0
                        /\ \E j \in 1 .. k - 1 :
                              /\ e[j] = <<"mutater", e[k][2]>>
                              /\ d[j - 1] = d[k]
                              /\ \A i \in j .. k - 1 : d[i] > d[k]
                  /\ e[k][1] = "decider" => (d[k] = 0 <=> k = 1)
                  /\ d[k] >= 0
                  /\ d[k] <= layers(pre)
            /\ d[Len(e)] = 0

\* a three-layer call had three mutations outstanding at once
C17_Witness ==
    /\ op = "decide"
    /\ layers(pre) = 3
    /\ \E k \in DOMAIN log.events : Outstanding[k] = 3

\* C18: mutate() on an agent of any number of layers applies the base mutater
\* once to the model of the core zero and returns its delta, and undo(delta)
\* applies the base undoer once to that model; the shells stay as they are.
C18_MutateUndoOncePerCall ==
    [][ /\ Mutate =>
              LET r == call_mutater(z(s).mutater, z(s).model)
              IN  /\ s' = add([z(s) EXCEPT !.model = r.model], layers(s))
                  /\ ret' = Delta(r.delta)
                  /\ log'.events = << <<"mutater", r.delta>> >>
        /\ \A delta \in DeltasOf(s) :
              Undo(delta) =>
                  /\ s' = add([z(s) EXCEPT !.model =
                                 call_undoer(z(s).undoer, z(s).model, delta)],
                              layers(s))
                  /\ log'.events = << <<"undoer", delta>> >> ]_vars

\* a three-layer agent took one mutation: the target went from 4 to 3
C18_Witness ==
    /\ op = "mutate"
    /\ layers(s) = 3
    /\ IsRef(s)
    /\ z(s).model = <<3, 0>>
    /\ ret = Delta(-1)
    /\ log.events = << <<"mutater", -1>> >>

\* C19: closed form of the layered decision.  decide() on an N-layer agent
\* with model m returns Action(a) exactly when the base decider gives a on m
\* and on each of the N models reached by applying the mutater 1 .. N times
\* in succession, and RequestModel otherwise.
C19_ClosedForm ==
    op = "decide" =>
        LET agent == z(pre)
            n == layers(pre)
            a == call_decider(agent.decider, agent.model)
            same == \A i \in 1 .. n :
                       call_decider(agent.decider,
                                    mutated(agent, agent.model, i)) = a
        IN  /\ ret = Action(a) <=> same
            /\ ~same => ret = RequestModel
            /\ ret = ClosedDecision(agent, n)

\* three layers committed to the action the decider gives on four models in a row
C19_Witness ==
    /\ op = "decide"
    /\ layers(pre) = 3
    /\ IsRef(pre)
    /\ z(pre).model = <<4, 0>>
    /\ ret = Action(1)
    /\ ClosedDecision(z(pre), 3) = Action(1)
    /\ ClosedDecision([z(pre) EXCEPT !.model = <<4, 1>>], 3) = RequestModel

\* AgentN::decide with `for _ in 0..limit` in place of `for _ in 0..MUTATION_LIMIT`
RECURSIVE decide_with(_, _)
RECURSIVE probe_with(_, _, _, _)
probe_with(self, a, i, limit) ==
    IF i = limit THEN Out(self, RequestModel, NoCalls)
    ELSE LET m == AgentN_mutate(self.core, NoCalls)
             d == decide_with(m.self, limit)
             u == AgentN_undo(d.self, m.ret, NoCalls)
             self1 == AgentS(u.self)
         IN  IF d.ret = RequestModel THEN probe_with(self1, a, i + 1, limit)
             ELSE Out(self1, compare(a, d.ret.value), NoCalls)

decide_with(self, limit) ==
    IF self.tag = "Z" THEN InZ(AgentZ_decide(self.agent, NoCalls))
    ELSE LET r == AgentZ_decide(z(self.agent.core), NoCalls)
             self0 == AgentS(z_store(self.agent.core, r.self))
         IN  InS(IF r.ret = RequestModel THEN Out(self0, RequestModel, NoCalls)
                 ELSE probe_with(self0, r.ret.value, 0, limit))

\* C20: retries repeat the same probe.  All iterations of the loop of one
\* AgentS::decide call make the same mutation, let the core decide on the same
\* mutated model and get the same decision from it, so the agent decides with
\* MUTATION_LIMIT iterations as it would with one.
C20_RetriesRepeatTheProbe ==
    op = "decide" =>
        /\ \A f \in Frames :
              \A i, j \in DOMAIN f.probes : f.probes[i] = f.probes[j]
        /\ LET top == TopMutates
           IN  \A j, k \in top :
                  /\ log.events[j] = log.events[k]
                  /\ log.events[j + 1][1] = "decider"
                  /\ log.events[j + 1] = log.events[k + 1]
        /\ decide_with(pre, MUTATION_LIMIT).ret = ret
        /\ decide_with(pre, 1).ret = ret
        /\ decide_with(pre, 1).self = s

\* a two-layer agent probed MUTATION_LIMIT times and gave up
C20_Witness ==
    /\ op = "decide"
    /\ layers(pre) = 2
    /\ Cardinality(TopMutates) = MUTATION_LIMIT
    /\ log.frames[Len(log.frames)].why = "exhausted"
    /\ decide_with(pre, 1).ret = RequestModel

====
